---- MODULE Spec2Model ----
(***************************************************************************)
(* A model of IRust's edit buffer (src/irust/buffer.rs), of its output     *)
(* renderer (src/irust/printer.rs) and of its raw writer                   *)
(* (src/irust/writer.rs).                                                  *)
(*                                                                         *)
(* Characters are one-character strings; a Rust String or Vec<char> is a   *)
(* sequence of them.  A Rust panic is the flag `panicked`: the operation   *)
(* that panics leaves the data as it was when the panic was raised and no  *)
(* operation runs afterwards.                                              *)
(***************************************************************************)
EXTENDS Integers, Sequences, FiniteSets, TLC

VARIABLES
    buffer,          \* Buffer.buffer: Vec<char>
    buffer_pos,      \* Buffer.buffer_pos: usize
    max_line_char,   \* Buffer.max_line_char: usize
    panicked,        \* a Vec index panic was raised
    ret,             \* what the last operation returned
    last,            \* the last operation with the buffer it was called on
    law,             \* progress of the insert / move_backward / remove sequence
    query,           \* <<p>> once buffer_pos_to_relative_cursor_pos(p) was called
    coord,           \* the pair that call returned
    cursor,          \* IRust.cursor: pos.current_pos, pos.starting_pos, bound.height
    internal_cursor, \* IRust.internal_cursor of the raw writer: x, y
    term,            \* the operations the last call made on the terminal, in order
    result,          \* what the last call returned: "Ok" or "Err"
    call,            \* the last call: its name, its arguments, the row it started at
    racer_locked,    \* the racer update lock of the live highlighting is held
    items,           \* Printer.items of the batch being built or drained
    pushed,          \* the items put into the batch, in the order of the calls
    yielded          \* the items the batch's iterator has yielded so far

bufVars == <<buffer, buffer_pos, max_line_char, panicked, ret, last>>
lawVars == <<law>>
coordVars == <<query, coord>>
outVars == <<cursor, internal_cursor, term, result, call, racer_locked>>
printerVars == <<items, pushed, yielded>>
vars == <<buffer, buffer_pos, max_line_char, panicked, ret, last, law, query, coord,
          cursor, internal_cursor, term, result, call, racer_locked,
          items, pushed, yielded>>

----------------------------------------------------------------------------
(* Bounds of the model *)

\* longest buffer content the edit operations build
MaxLen == 3
\* largest value the cursor is followed to
MaxPos == 4
\* longest string given to insert_str
MaxStr == 2
\* widest wrap width
MaxWidth == 6
\* tallest terminal
MaxHeight == 10
\* most items in one output batch
MaxItems == 3
\* the terminal's k-th fallible operation of a call fails, k up to MaxFail
MaxFail == 4
\* largest internal_cursor.y a write starts from
MaxY == 2

NL == "\n"
Chars == {"a", "b", NL}
None == "None"

RECURSIVE SeqsUpTo(_, _)
SeqsUpTo(S, n) ==
    IF n = 0 THEN {<<>>}
    ELSE LET shorter == SeqsUpTo(S, n - 1)
         IN  shorter \cup {Append(s, c) : s \in {t \in shorter : Len(t) = n - 1}, c \in S}

----------------------------------------------------------------------------
(* Vec<char> *)

\* Vec::insert(index, c), for index <= len
VecInsert(v, index, c) ==
    SubSeq(v, 1, index) \o <<c>> \o SubSeq(v, index + 1, Len(v))

\* Vec::remove(index), for index < len: the vector without the element
VecRemove(v, index) ==
    SubSeq(v, 1, index) \o SubSeq(v, index + 2, Len(v))

\* Vec::get(index)
VecGet(v, index) == IF index < Len(v) THEN v[index + 1] ELSE None

----------------------------------------------------------------------------
(* Buffer: the operations on a record [buffer, buffer_pos, panicked] *)

Buf(b, p) == [buffer |-> b, buffer_pos |-> p, panicked |-> FALSE]

len(b) == Len(b.buffer)

is_empty(b) == len(b) = 0

is_at_end(b) == b.buffer_pos = len(b)

move_forward(b) == [b EXCEPT !.buffer_pos = @ + 1]

move_backward(b) ==
    IF b.buffer_pos # 0 THEN [b EXCEPT !.buffer_pos = @ - 1] ELSE b

insert_no_advance(b, c) ==
    IF b.buffer_pos > len(b)
    THEN [b EXCEPT !.panicked = TRUE]
    ELSE [b EXCEPT !.buffer = VecInsert(@, b.buffer_pos, c)]

\* Vec::insert panics when the index is past the end
insert(b, c) ==
    IF b.buffer_pos > len(b)
    THEN [b EXCEPT !.panicked = TRUE]
    ELSE move_forward([b EXCEPT !.buffer = VecInsert(@, b.buffer_pos, c)])

RECURSIVE insert_str(_, _)
insert_str(b, s) ==
    IF s = <<>> \/ b.panicked THEN b
    ELSE insert_str(insert(b, Head(s)), Tail(s))

\* Vec::remove panics when the index is not below the length
remove_current_char(b) ==
    IF ~is_empty(b)
    THEN IF b.buffer_pos >= len(b)
         THEN [buf |-> [b EXCEPT !.panicked = TRUE], ret |-> None]
         ELSE [buf |-> [b EXCEPT !.buffer = VecRemove(@, b.buffer_pos)],
               ret |-> b.buffer[b.buffer_pos + 1]]
    ELSE [buf |-> b, ret |-> None]

clear(b) == [b EXCEPT !.buffer = <<>>, !.buffer_pos = 0]

goto_start(b) == [b EXCEPT !.buffer_pos = 0]

goto_end(b) == [b EXCEPT !.buffer_pos = len(b)]

----------------------------------------------------------------------------
(* Buffer::buffer_pos_to_relative_cursor_pos, on content v with wrap width w *)

RECURSIVE count_newlines(_, _)
\* the number of newlines among the first n characters of v
count_newlines(v, n) ==
    IF n = 0 THEN 0
    ELSE count_newlines(v, n - 1) + (IF v[n] = NL THEN 1 ELSE 0)

Min(a, b) == IF a <= b THEN a ELSE b

newlines_in_all(v, p) == count_newlines(v, Len(v))

\* iter().take(buffer_pos).filter(|c| **c == '\n').count()
newlines_before(v, p) == count_newlines(v, Min(p, Len(v)))

loop_body_wrap_past(v, w, i, xy) ==
    LET x == IF VecGet(v, i) = NL THEN 0 ELSE xy[1] + 1
    IN  IF x > w THEN <<0, xy[2] + 1>> ELSE <<x, xy[2]>>

loop_body_keep_col(v, w, i, xy) ==
    LET x == IF VecGet(v, i) = NL THEN xy[1] ELSE xy[1] + 1
    IN  IF x = w THEN <<0, xy[2] + 1>> ELSE <<x, xy[2]>>

\* one turn of the loop over i, from (x, y) to the next (x, y)
loop_body(v, w, i, xy) ==
    LET x == IF VecGet(v, i) = NL THEN 0 ELSE xy[1] + 1
    IN  IF x = w THEN <<0, xy[2] + 1>> ELSE <<x, xy[2]>>

RECURSIVE loop(_, _, _, _, _)
\* for i in i..buffer_pos
loop(v, w, i, p, xy) ==
    IF i >= p THEN xy ELSE loop(v, w, i + 1, p, loop_body(v, w, i, xy))

buffer_pos_to_relative_cursor_pos_inclusive(v, w, p) ==
    loop(v, w, 0, p + 1, <<0, newlines_before(v, p)>>)

buffer_pos_to_relative_cursor_pos(v, w, p) ==
    loop(v, w, 0, p, <<0, newlines_before(v, p)>>)

last_buffer_pos_to_relative_cursor_pos(v, w) ==
    buffer_pos_to_relative_cursor_pos(v, w, Len(v))

----------------------------------------------------------------------------
(* The edit operations as steps of a session that owns one Buffer *)

Cur == [buffer |-> buffer, buffer_pos |-> buffer_pos, panicked |-> panicked]

\* the buffer becomes b, the operation op(arg) having returned r
Becomes(b, r, op, arg) ==
    /\ buffer' = b.buffer
    /\ buffer_pos' = b.buffer_pos
    /\ panicked' = b.panicked
    /\ ret' = r
    /\ last' = [op |-> op, arg |-> arg, buffer |-> buffer, buffer_pos |-> buffer_pos]
    /\ UNCHANGED max_line_char

NoCall == [op |-> "new", arg |-> None, buffer |-> <<>>, buffer_pos |-> 0]

\* Buffer::new(max_line_char)
new(w) ==
    /\ buffer = <<>>
    /\ buffer_pos = 0
    /\ max_line_char = w
    /\ panicked = FALSE
    /\ ret = None
    /\ last = NoCall

\* no batch: Printer::default(), nothing pushed, nothing yielded
NoPrinter ==
    /\ items = <<>>
    /\ pushed = <<>>
    /\ yielded = <<>>

\* no terminal session: the output state of the sessions that only edit a Buffer
NoOutput ==
    /\ NoPrinter
    /\ racer_locked = FALSE
    /\ cursor = [current_pos |-> <<0, 0>>, starting_pos |-> <<0, 0>>, height |-> 1]
    /\ internal_cursor = [x |-> 0, y |-> 0]
    /\ term = <<>>
    /\ result = None
    /\ call = [op |-> None]

IdleLaw == [phase |-> "off", c |-> None, buffer |-> <<>>, buffer_pos |-> 0]

InitBuffer ==
    /\ \E w \in 1..MaxWidth : new(w)
    /\ law = IdleLaw
    /\ query = <<>>
    /\ coord = <<>>
    /\ NoOutput

Insert(c) ==
    /\ ~panicked
    /\ Len(buffer) < MaxLen
    /\ Becomes(insert(Cur, c), None, "insert", c)
    /\ UNCHANGED <<lawVars, coordVars, outVars, printerVars>>

InsertStr(s) ==
    /\ ~panicked
    /\ Len(buffer) + Len(s) <= MaxLen
    /\ Becomes(insert_str(Cur, s), None, "insert_str", s)
    /\ UNCHANGED <<lawVars, coordVars, outVars, printerVars>>

RemoveCurrentChar ==
    /\ ~panicked
    /\ LET r == remove_current_char(Cur)
       IN  Becomes(r.buf, r.ret, "remove_current_char", None)
    /\ UNCHANGED <<lawVars, coordVars, outVars, printerVars>>

MoveForward ==
    /\ ~panicked
    /\ buffer_pos < MaxPos
    /\ Becomes(move_forward(Cur), None, "move_forward", None)
    /\ UNCHANGED <<lawVars, coordVars, outVars, printerVars>>

MoveBackward ==
    /\ ~panicked
    /\ Becomes(move_backward(Cur), None, "move_backward", None)
    /\ UNCHANGED <<lawVars, coordVars, outVars, printerVars>>

GotoStart ==
    /\ ~panicked
    /\ Becomes(goto_start(Cur), None, "goto_start", None)
    /\ UNCHANGED <<lawVars, coordVars, outVars, printerVars>>

GotoEnd ==
    /\ ~panicked
    /\ Becomes(goto_end(Cur), None, "goto_end", None)
    /\ UNCHANGED <<lawVars, coordVars, outVars, printerVars>>

Clear ==
    /\ ~panicked
    /\ Becomes(clear(Cur), None, "clear", None)
    /\ UNCHANGED <<lawVars, coordVars, outVars, printerVars>>

NextBuffer ==
    \/ \E c \in Chars : Insert(c)
    \/ \E s \in SeqsUpTo(Chars, MaxStr) : InsertStr(s)
    \/ RemoveCurrentChar
    \/ MoveForward
    \/ MoveBackward
    \/ GotoStart
    \/ GotoEnd
    \/ Clear

SpecBuffer == InitBuffer /\ [][NextBuffer]_vars

----------------------------------------------------------------------------
(* Claims about the edit operations *)

\* C1: after any sequence of edit operations from an empty buffer the cursor
\* is in range, 0 <= buffer_pos <= len(buffer).
C1_CursorInRange == buffer_pos >= 0 /\ buffer_pos <= Len(buffer)

\* C2: remove_current_char called with 0 <= cursor <= len: a character at the
\* cursor is removed and returned and the rest shifts left; with no character
\* at the cursor the call changes nothing, returns nothing and does not fail;
\* the cursor is unchanged either way.
C2_RemoveCurrentChar ==
    (last.op = "remove_current_char" /\ last.buffer_pos <= Len(last.buffer)) =>
        /\ ~panicked
        /\ buffer_pos = last.buffer_pos
        /\ IF last.buffer_pos < Len(last.buffer)
           THEN /\ ret = last.buffer[last.buffer_pos + 1]
                /\ buffer = VecRemove(last.buffer, last.buffer_pos)
           ELSE /\ ret = None
                /\ buffer = last.buffer

----------------------------------------------------------------------------
(* The sequence insert(c); move_backward(); remove_current_char(), run on a
   buffer built by from_str and set_buffer_pos *)

\* Buffer::from_str(str, max_line_char)
from_str(str, w) ==
    /\ buffer = str
    /\ buffer_pos = 0
    /\ max_line_char = w
    /\ panicked = FALSE
    /\ ret = None
    /\ last = [NoCall EXCEPT !.op = "from_str", !.buffer = str]

InitLaw ==
    /\ \E str \in SeqsUpTo(Chars, MaxLen) :
        /\ buffer = str
        /\ max_line_char = MaxWidth
        \* set_buffer_pos(pos)
        /\ buffer_pos \in 0..Len(str)
        /\ law = [phase |-> "start", c |-> None, buffer |-> str, buffer_pos |-> buffer_pos]
        /\ last = [NoCall EXCEPT !.op = "set_buffer_pos", !.buffer = str]
    /\ panicked = FALSE
    /\ ret = None
    /\ query = <<>>
    /\ coord = <<>>
    /\ NoOutput

LawInsert(c) ==
    /\ law.phase = "start"
    /\ ~panicked
    /\ Becomes(insert(Cur, c), None, "insert", c)
    /\ law' = [law EXCEPT !.phase = "inserted", !.c = c]
    /\ UNCHANGED <<coordVars, outVars, printerVars>>

LawMoveBackward ==
    /\ law.phase = "inserted"
    /\ ~panicked
    /\ Becomes(move_backward(Cur), None, "move_backward", None)
    /\ law' = [law EXCEPT !.phase = "moved"]
    /\ UNCHANGED <<coordVars, outVars, printerVars>>

LawRemoveCurrentChar ==
    /\ law.phase = "moved"
    /\ ~panicked
    /\ LET r == remove_current_char(Cur)
       IN  Becomes(r.buf, r.ret, "remove_current_char", None)
    /\ law' = [law EXCEPT !.phase = "done"]
    /\ UNCHANGED <<coordVars, outVars, printerVars>>

NextLaw ==
    \/ \E c \in Chars : LawInsert(c)
    \/ LawMoveBackward
    \/ LawRemoveCurrentChar

SpecLaw == InitLaw /\ [][NextLaw]_vars

\* C3: insert(c); move_backward(); remove_current_char() returns c and leaves
\* the content and the cursor as they were before the insert.
C3_InsertRemoveInverse ==
    law.phase = "done" =>
        /\ ~panicked
        /\ ret = law.c
        /\ buffer = law.buffer
        /\ buffer_pos = law.buffer_pos

\* the sequence has run on a buffer with characters on both sides of the cursor
C3_Witness ==
    /\ law.phase = "done"
    /\ law.buffer_pos > 0
    /\ law.buffer_pos < Len(law.buffer)
    /\ ret = law.c

----------------------------------------------------------------------------
(* Coordinate queries on a buffer built by from_str *)

Abcdefghij == <<"a", "b", "c", "d", "e", "f", "g", "h", "i", "j">>
AbNlCde == <<"a", "b", NL, "c", "d", "e">>

Contents == SeqsUpTo(Chars, MaxLen) \cup {Abcdefghij, AbNlCde}

InitCoord ==
    /\ \E str \in Contents, w \in 1..MaxWidth : from_str(str, w)
    /\ law = IdleLaw
    /\ query = <<>>
    /\ coord = <<>>
    /\ NoOutput

\* a call of buffer_pos_to_relative_cursor_pos(p) with p in [0, len]
Query(p) ==
    /\ query' = <<p>>
    /\ coord' = buffer_pos_to_relative_cursor_pos(buffer, max_line_char, p)
    /\ UNCHANGED <<bufVars, lawVars, outVars, printerVars>>

NextCoord == \E p \in 0..Len(buffer) : Query(p)

SpecCoord == InitCoord /\ [][NextCoord]_vars

Queried == query # <<>>

\* the position of the last query
Pos == query[1]

RECURSIVE ReferenceWalk(_, _, _, _)
\* the walk over characters 1..n of v: a newline sets col to 0 and adds a row,
\* any other character adds a column; then col = w resets col and adds a row
ReferenceWalk(v, w, n, cr) ==
    IF n = 0 THEN cr
    ELSE LET before == ReferenceWalk(v, w, n - 1, cr)
             step == IF v[n] = NL THEN <<0, before[2] + 1>>
                     ELSE <<before[1] + 1, before[2]>>
         IN  IF step[1] = w THEN <<0, step[2] + 1>> ELSE step

HasNewline(v) == \E i \in 1..Len(v) : v[i] = NL

\* C4: buffer_pos_to_relative_cursor_pos(p) is the result of the reference
\* walk over characters 0..p, for every content, w >= 1 and p in [0, len].
C4_MatchesReferenceWalk ==
    Queried => coord = ReferenceWalk(buffer, max_line_char, Pos, <<0, 0>>)

\* a query past a newline and past a wrap
C4_Witness ==
    /\ Queried
    /\ HasNewline(SubSeq(buffer, 1, Pos))
    /\ coord[2] >= 2
    /\ coord[1] > 0

\* C5: the column returned is at least 0 and below the wrap width.
C5_ColumnBelowWidth ==
    Queried => (coord[1] >= 0 /\ coord[1] < max_line_char)

\* a query whose walk reached the wrap width and went on
C5_Witness ==
    /\ Queried
    /\ Pos > max_line_char
    /\ coord[1] = max_line_char - 1
    /\ max_line_char > 1

\* C6: on content without newlines the result is (p mod w, p div w); with
\* w = 5 and "abcdefghij", 5 maps to (0, 1) and 10 to (0, 2).
C6_WrapBoundary ==
    /\ (Queried /\ ~HasNewline(buffer)) =>
           coord = <<Pos % max_line_char, Pos \div max_line_char>>
    /\ (Queried /\ buffer = Abcdefghij /\ max_line_char = 5 /\ Pos = 5) => coord = <<0, 1>>
    /\ (Queried /\ buffer = Abcdefghij /\ max_line_char = 5 /\ Pos = 10) => coord = <<0, 2>>

C6_Witness ==
    /\ Queried
    /\ buffer = Abcdefghij
    /\ max_line_char = 5
    /\ Pos = 10
    /\ coord = <<0, 2>>

\* C7: with w = 3 and "ab\ncde", 3 maps to (0, 1) and 5 to (2, 1); a newline
\* met before the wrap limit adds exactly one row.
C7_NewlineAndWrap ==
    /\ (Queried /\ buffer = AbNlCde /\ max_line_char = 3 /\ Pos = 3) => coord = <<0, 1>>
    /\ (Queried /\ buffer = AbNlCde /\ max_line_char = 3 /\ Pos = 5) => coord = <<2, 1>>
    /\ (Queried /\ Pos > 0 /\ buffer[Pos] = NL) =>
           coord = <<0, buffer_pos_to_relative_cursor_pos(buffer, max_line_char,
                                                          Pos - 1)[2] + 1>>

C7_Witness ==
    /\ Queried
    /\ buffer = AbNlCde
    /\ max_line_char = 3
    /\ Pos = 5
    /\ coord = <<2, 1>>

----------------------------------------------------------------------------
(* Printer: a batch is the sequence Printer.items of PrinterItems *)

PrinterItem_newline_text == [string |-> <<NL>>, string_type |-> "NewLine"]

\* PrinterItem::default()
PrinterItem_default == [string |-> <<>>, string_type |-> "NewLine"]

\* PrinterItem::new(string, string_type)
PrinterItem_new(string, string_type) ==
    [string |-> string, string_type |-> string_type]

\* print_output's match from an item's type to its colour
color_of(string_type) ==
    CASE string_type = "Eval" -> "eval_color"
      [] string_type = "Ok" -> "ok_color"
      [] string_type = "_IRust" -> "irust_color"
      [] string_type = "Warn" -> "irust_warn_color"
      [] string_type = "Out" -> "out_color"
      [] string_type = "Shell" -> "shell_color"
      [] string_type = "Err" -> "err_color"
      [] OTHER -> "White"

RECURSIVE split(_)
\* str::split('\n'): the pieces between the newlines, k + 1 of them for k newlines
split(s) ==
    IF ~HasNewline(s) THEN <<s>>
    ELSE LET i == CHOOSE i \in 1..Len(s) : s[i] = NL /\ \A j \in 1..(i - 1) : s[j] # NL
         IN  <<SubSeq(s, 1, i - 1)>> \o split(SubSeq(s, i + 1, Len(s)))

\* StringTools::new_lines_count
new_lines_count(s) == count_newlines(s, Len(s))

\* StringTools::is_multiline
is_multiline(s) == HasNewline(s)

RECURSIVE count_new_line_items(_)
\* printer.iter().filter(|p| p.string_type == PrinterItemType::NewLine).count()
count_new_line_items(printer) ==
    IF printer = <<>> THEN 0
    ELSE (IF Head(printer).string_type = "NewLine" THEN 1 ELSE 0)
         + count_new_line_items(Tail(printer))

----------------------------------------------------------------------------
(* A call in progress: st = [cursor, internal_cursor, term, n, fail, res,
   locked, checks].  term is the terminal's log, n the number of fallible
   operations made so far, fail the number of the one that fails (0: none
   does), res what the call returns, locked the racer update lock, checks
   what each overflow re-check of print_output saw and did. *)

Max(a, b) == IF a >= b THEN a ELSE b

Enter(fail) ==
    [cursor |-> cursor, internal_cursor |-> internal_cursor, term |-> <<>>,
     n |-> 0, fail |-> fail, res |-> "Ok", locked |-> racer_locked, checks |-> <<>>]

\* a terminal operation that returns a Result
TermDo(st, op, arg) ==
    [st EXCEPT !.n = @ + 1,
               !.term = Append(@, [op |-> op, arg |-> arg, ok |-> st.n + 1 # st.fail])]

\* a cursor operation whose caller is given no Result
TermMove(st, op, arg) ==
    [st EXCEPT !.term = Append(@, [op |-> op, arg |-> arg, ok |-> TRUE])]

\* the Result of the terminal operation just made
LastOk(st) == st.term[Len(st.term)].ok

\* return Err(e), by `?`
Err(st) == [st EXCEPT !.res = "Err"]

row(st) == st.cursor.current_pos[2]

\* Cursor::goto_next_row_terminal_start
goto_next_row_terminal_start(st) ==
    TermMove([st EXCEPT !.cursor.current_pos = <<0, @[2] + 1>>], "goto", <<0, row(st) + 1>>)

\* Cursor::use_current_row_as_starting_row
use_current_row_as_starting_row(st) ==
    [st EXCEPT !.cursor.starting_pos = <<@[1], row(st)>>]

\* Cursor::screen_height_overflow_by_new_lines
screen_height_overflow_by_new_lines(st, new_lines) ==
    Max(0, new_lines + row(st) - (st.cursor.height - 1))

\* IRust::scroll_up(n)
scroll_up(st, n) ==
    TermMove([st EXCEPT !.cursor.current_pos = <<@[1], Max(0, @[2] - n)>>,
                        !.cursor.starting_pos = <<@[1], Max(0, @[2] - n)>>],
             "scroll_up", n)

scroll_if_needed_for_printer_one_row(st, printer) ==
    LET new_lines == count_new_line_items(printer)
        height_overflow == screen_height_overflow_by_new_lines(st, new_lines)
    IN  IF height_overflow > 0 THEN scroll_up(st, 1) ELSE st

scroll_if_needed_for_printer(st, printer) ==
    LET new_lines == count_new_line_items(printer)
        height_overflow == screen_height_overflow_by_new_lines(st, new_lines)
    IN  IF height_overflow > 0 THEN scroll_up(st, height_overflow) ELSE st

scroll_if_needed_for_output(st, output) ==
    LET new_lines == new_lines_count(output)
        height_overflow == screen_height_overflow_by_new_lines(st, new_lines)
    IN  IF height_overflow > 0
        THEN LET s1 == TermDo(st, "scroll_up", 1)
             IN  IF ~LastOk(s1) THEN Err(s1)
                 ELSE [s1 EXCEPT !.cursor.current_pos = <<@[1], st.cursor.height - 1>>]
        ELSE st

RECURSIVE write_lines_per_newline(_, _)
write_lines_per_newline(st, lines) ==
    IF lines = <<>> THEN st
    ELSE LET s1 == TermDo(st, "write", Head(lines))
             s2 == TermDo(s1, "write", <<"\r", NL>>)
             s3 == IF Tail(lines) = <<>> THEN s2
                   ELSE [s2 EXCEPT !.cursor.current_pos = <<@[1], @[2] + 1>>]
         IN  write_lines_per_newline(s3, Tail(lines))

RECURSIVE write_lines(_, _)
\* output.string.split('\n').for_each(..): both Results are dropped
write_lines(st, lines) ==
    IF lines = <<>> THEN st
    ELSE LET s1 == TermDo(st, "write", Head(lines))
             s2 == TermDo(s1, "write", <<"\r", NL>>)
             s3 == [s2 EXCEPT !.cursor.current_pos = <<@[1], @[2] + 1>>]
         IN  write_lines(s3, Tail(lines))

\* the overflow re-check after a text item, with what it saw and did put on
\* record: the row the item started at, the row after the line advance, the
\* row and the newline count the re-check saw, what it did and the row it left
recheck(entry, advanced, st, output) ==
    LET s1 == scroll_if_needed_for_output(st, output)
    IN  [s1 EXCEPT !.checks = Append(@,
            [start |-> row(entry), advanced |-> row(advanced), before |-> row(st),
             new_lines |-> new_lines_count(output), after |-> row(s1),
             ops |-> SubSeq(s1.term, Len(st.term) + 1, Len(s1.term))])]

\* one turn of print_output's loop
print_output_item(st, output) ==
    IF output.string_type = "NewLine"
    THEN use_current_row_as_starting_row(goto_next_row_terminal_start(st))
    ELSE LET s1 == TermDo(st, "set_fg", color_of(output.string_type))
         IN  IF ~LastOk(s1) THEN Err(s1)
             ELSE IF is_multiline(output.string)
             THEN LET s2 == goto_next_row_terminal_start(s1)
                  IN  recheck(st, s2, write_lines(s2, split(output.string)),
                              output.string)
             ELSE LET s2 == TermDo(s1, "write", output.string)
                  IN  IF ~LastOk(s2) THEN Err(s2)
                      ELSE recheck(st, s2, s2, output.string)

RECURSIVE print_output_loop(_, _)
\* for output in printer
print_output_loop(st, printer) ==
    IF printer = <<>> \/ st.res = "Err" THEN st
    ELSE print_output_loop(print_output_item(st, Head(printer)), Tail(printer))

print_output(st, printer) ==
    print_output_loop(scroll_if_needed_for_printer(st, printer), printer)

----------------------------------------------------------------------------
(* A session that prints output batches *)

\* the call op(arg) returns, having left st
Returns(st, op, arg) ==
    /\ cursor' = st.cursor
    /\ internal_cursor' = st.internal_cursor
    /\ term' = st.term
    /\ result' = st.res
    /\ racer_locked' = st.locked
    /\ call' = [op |-> op, arg |-> arg, row |-> cursor.current_pos[2], fail |-> st.fail,
                checks |-> st.checks]

Texts == {<<"a">>, <<"a", NL, "b">>, <<"a", NL, "b", NL>>}

Items == {PrinterItem_default} \cup {PrinterItem_new(t, "Out") : t \in Texts}

InitOutput ==
    /\ new(MaxWidth)
    /\ law = IdleLaw
    /\ query = <<>>
    /\ coord = <<>>
    /\ \E h \in 1..MaxHeight, r \in 0..(MaxHeight - 1) :
        /\ r < h
        /\ cursor = [current_pos |-> <<0, r>>, starting_pos |-> <<0, r>>, height |-> h]
    /\ internal_cursor = [x |-> 0, y |-> 0]
    /\ term = <<>>
    /\ result = None
    /\ call = [op |-> None]
    /\ racer_locked = FALSE
    /\ NoPrinter

PrintOutput(printer, fail) ==
    /\ call.op = None
    /\ Returns(print_output(Enter(fail), printer), "print_output", printer)
    /\ UNCHANGED <<bufVars, lawVars, coordVars, printerVars>>

\* the caller has taken the Result; the session waits for its next call
Handled ==
    /\ call.op # None
    /\ term' = <<>>
    /\ result' = None
    /\ call' = [op |-> None]
    /\ UNCHANGED <<cursor, internal_cursor, racer_locked, bufVars, lawVars, coordVars,
                   printerVars>>

NextOutput ==
    \/ \E printer \in SeqsUpTo(Items, MaxItems), fail \in 0..MaxFail :
           PrintOutput(printer, fail)
    \/ Handled

SpecOutput == InitOutput /\ [][NextOutput]_vars

----------------------------------------------------------------------------
(* Claims about print_output *)

\* the scroll-up operations of the last call, as indexes into term
ScrollUps == {i \in 1..Len(term) : term[i].op = "scroll_up"}

HasMultilineItem(printer) ==
    \E i \in 1..Len(printer) : is_multiline(printer[i].string)

\* a successful print_output, on a terminal 10 rows high whose tracked row is
\* 9, of a batch with 3 NewLine items and no text with embedded newlines
ScrollTriggerScenario ==
    /\ call.op = "print_output"
    /\ result = "Ok"
    /\ cursor.height = 10
    /\ call.row = 9
    /\ count_new_line_items(call.arg) = 3
    /\ ~HasMultilineItem(call.arg)

\* C8: in the scroll-trigger scenario print_output scrolls up exactly once, by
\* 3 rows, before anything else is done on the terminal, and the tracked row
\* is 9 when it returns.
C8_ScrollTrigger ==
    ScrollTriggerScenario =>
        /\ ScrollUps = {1}
        /\ term[1].arg = 9 + 3 - (10 - 1)
        /\ cursor.current_pos[2] = 9

C8_Witness ==
    /\ ScrollTriggerScenario
    /\ Len(term) = 4
    /\ cursor.current_pos[2] = 9

\* C9: whenever print_output returns, the tracked row is in the viewport,
\* 0 <= row < bound.height.
C9_RowInViewport ==
    call.op = "print_output" =>
        (cursor.current_pos[2] >= 0 /\ cursor.current_pos[2] < cursor.height)

\* C10: a failed terminal operation is the last one of its call and the call
\* returns the failure.
C10_FailuresPropagate ==
    \A i \in 1..Len(term) : ~term[i].ok => (result = "Err" /\ i = Len(term))

----------------------------------------------------------------------------
(* The raw writer, src/irust/writer.rs *)

\* InternalCursor::move_right
move_right(st) == [st EXCEPT !.internal_cursor.x = @ + 1]

\* IRust::go_to_cursor
go_to_cursor(st) ==
    TermDo(st, "goto", <<st.internal_cursor.x, st.internal_cursor.y>>)

write_newline(st) ==
    LET s1 == TermDo(st, "write", <<NL>>)
    IN  IF ~LastOk(s1) THEN Err(s1)
        ELSE LET s2 == go_to_cursor([s1 EXCEPT !.internal_cursor.x = 0,
                                                !.internal_cursor.y = @ + 1])
             IN  IF ~LastOk(s2) THEN Err(s2) ELSE s2

\* let _ = ...: the Result is dropped
Dropped(st) == [st EXCEPT !.res = "Ok"]

RECURSIVE write_pieces(_, _)
\* out.split('\n').for_each(..)
write_pieces(st, pieces) ==
    IF pieces = <<>> THEN st
    ELSE LET s1 == TermDo(st, "write", Head(pieces))
         IN  write_pieces(Dropped(write_newline(s1)), Tail(pieces))

RECURSIVE write_chars(_, _)
\* out.chars().for_each(..)
write_chars(st, out) ==
    IF out = <<>> THEN st
    ELSE write_chars(move_right(TermDo(st, "write", <<Head(out)>>)), Tail(out))

write(st, out) ==
    IF out # <<>>
    THEN IF is_multiline(out)
         THEN write_pieces(Dropped(write_newline(st)), split(out))
         ELSE write_chars(st, out)
    ELSE st

Outs == {<<>>, <<"a">>, <<"a", "b">>, <<"a", NL, "b">>}

InitWrite ==
    /\ new(MaxWidth)
    /\ law = IdleLaw
    /\ query = <<>>
    /\ coord = <<>>
    /\ cursor = [current_pos |-> <<0, 0>>, starting_pos |-> <<0, 0>>, height |-> MaxHeight]
    /\ internal_cursor = [x |-> 0, y |-> 0]
    /\ term = <<>>
    /\ result = None
    /\ call = [op |-> None]
    /\ racer_locked = FALSE
    /\ NoPrinter

Write(out, fail) ==
    /\ call.op = None
    /\ internal_cursor.y <= MaxY
    /\ internal_cursor.x <= MaxY
    /\ Returns(write(Enter(fail), out), "write", out)
    /\ UNCHANGED <<bufVars, lawVars, coordVars, printerVars>>

WriteNewline(fail) ==
    /\ call.op = None
    /\ internal_cursor.y <= MaxY
    /\ Returns(write_newline(Enter(fail)), "write_newline", None)
    /\ UNCHANGED <<bufVars, lawVars, coordVars, printerVars>>

NextWrite ==
    \/ \E out \in Outs, fail \in 0..MaxFail : Write(out, fail)
    \/ \E fail \in 0..MaxFail : WriteNewline(fail)
    \/ Handled

SpecWrite == InitWrite /\ [][NextWrite]_vars

----------------------------------------------------------------------------
(* Printer's operations, on the sequence Printer.items *)

CR == "\r"
StrChars == {"a", NL, CR}

\* Printer::new(output)
Printer_new(output) == <<output>>

RECURSIVE add_new_line(_, _)
add_new_line(p, num) ==
    IF num = 0 THEN p ELSE add_new_line(Append(p, PrinterItem_default), num - 1)

push(p, output) == Append(p, output)

\* Vec::pop: the batch without its last item, and that item
pop(p) ==
    IF p = <<>> THEN [items |-> p, ret |-> <<>>]
    ELSE [items |-> SubSeq(p, 1, Len(p) - 1), ret |-> <<p[Len(p)]>>]

append_in_front(self, other) == [self |-> other \o self, other |-> <<>>]

\* Vec::append: self takes every item of other, other is left empty
append(self, other) == [self |-> self \o other, other |-> <<>>]

next_from_back(p) ==
    IF p # <<>> THEN [items |-> SubSeq(p, 1, Len(p) - 1), ret |-> <<p[Len(p)]>>]
    ELSE [items |-> p, ret |-> <<>>]

\* Iterator::next: Some(self.items.remove(0)), or None
next(p) ==
    IF p # <<>> THEN [items |-> Tail(p), ret |-> <<Head(p)>>]
    ELSE [items |-> p, ret |-> <<>>]

ends_with_newline(s) == s # <<>> /\ s[Len(s)] = NL

\* a line without the carriage return that ends it
strip_cr(l) ==
    IF l # <<>> /\ l[Len(l)] = CR THEN SubSeq(l, 1, Len(l) - 1) ELSE l

\* str::lines: the pieces that "\n" or "\r\n" end, and the rest when it is not
\* empty.  Older standard libraries also strip a carriage return that ends the
\* last piece when no newline follows it (bare_cr_stripped).
lines(s, bare_cr_stripped) ==
    LET pieces == split(s)
        n == Len(pieces)
        kept == IF pieces[n] = <<>> THEN n - 1 ELSE n
    IN  [i \in 1..kept |->
            IF i < n \/ bare_cr_stripped THEN strip_cr(pieces[i]) ELSE pieces[i]]

RECURSIVE push_lines(_, _)
\* string.lines().for_each(|l| { push(..); add_new_line(1) })
push_lines(p, ls) ==
    IF ls = <<>> THEN p
    ELSE push_lines(add_new_line(push(p, PrinterItem_new(Head(ls), "Custom(None)")), 1),
                    Tail(ls))

from_string_no_pop(string, bare_cr_stripped) ==
    push_lines(<<>>, lines(string, bare_cr_stripped))

from_string_skip_empty(string, bare_cr_stripped) ==
    LET printer == push_lines(<<>>, SelectSeq(lines(string, bare_cr_stripped),
                                              LAMBDA l : l # <<>>))
    IN  IF ~ends_with_newline(string) THEN pop(printer).items ELSE printer

from_string(string, bare_cr_stripped) ==
    LET printer == push_lines(<<>>, lines(string, bare_cr_stripped))
    IN  IF ~ends_with_newline(string) THEN pop(printer).items ELSE printer

----------------------------------------------------------------------------
(* The batches parse returns *)

SUCCESS == <<"O", "k", "!">>

\* reset, pop, del, add_dep, load_script
success_outputs ==
    add_new_line(Printer_new(PrinterItem_new(SUCCESS, "Ok")), 1)

\* what the collaborators return: a type name, a command's output, an
\* evaluation's formatted output
Evaluations ==
    {<<PrinterItem_new(<<"a">>, "Eval")>>,
     <<PrinterItem_new(<<"a", NL, "b">>, "Err")>>,
     <<PrinterItem_new(<<"a">>, "Warn"), PrinterItem_new(<<"b">>, "Eval")>>}

parse_second_order(input, eval_output) ==
    IF input = "empty" \/ input = "statement" THEN <<>>
    ELSE add_new_line(append(<<>>, eval_output).self, 1)

parse(cmd, text, eval_output) ==
    CASE cmd = ":reset" -> success_outputs
      [] cmd = ":type" -> Printer_new(PrinterItem_new(text, "Ok"))
      [] cmd = "::" -> Printer_new(PrinterItem_new(text, "Shell"))
      [] cmd = ":irust" -> Printer_new(PrinterItem_new(text, "Custom(Some)"))
      [] OTHER -> parse_second_order(cmd, eval_output)

Commands == {":reset", ":type", "::", ":irust", "empty", "statement", "expression"}

----------------------------------------------------------------------------
(* A producer builds a batch, then the batch is drained through its iterator *)

\* the items the producers of this repository make
ProducerItems ==
    {PrinterItem_new(SUCCESS, "Ok"),
     PrinterItem_new(<<"a">>, "Custom(None)"),
     PrinterItem_new(<<"a", NL>>, "Shell")}

InitPrinter ==
    /\ new(MaxWidth)
    /\ law = IdleLaw
    /\ query = <<>>
    /\ coord = <<>>
    /\ NoOutput

\* the batch becomes p, the call op(arg) having returned r and put the items
\* of g into the batch so far
Built(p, g, op, arg, r) ==
    /\ items' = p
    /\ pushed' = g
    /\ call' = [op |-> op, arg |-> arg, ret |-> r]
    /\ UNCHANGED <<yielded, cursor, internal_cursor, term, result, racer_locked,
                   bufVars, lawVars, coordVars>>

PrinterNew(output) ==
    /\ yielded = <<>>
    /\ Built(Printer_new(output), <<output>>, "new", output, <<>>)

Push(output) ==
    /\ yielded = <<>>
    /\ Len(items) < MaxItems
    /\ Built(push(items, output), Append(pushed, output), "push", output, <<>>)

AddNewLine(num) ==
    /\ yielded = <<>>
    /\ Len(items) + num <= MaxItems
    /\ Built(add_new_line(items, num),
             pushed \o [i \in 1..num |-> PrinterItem_default],
             "add_new_line", num, <<>>)

Pop ==
    /\ yielded = <<>>
    /\ LET r == pop(items)
       IN  Built(r.items, SubSeq(pushed, 1, Len(pushed) - 1), "pop", None, r.ret)

Append_(other) ==
    /\ yielded = <<>>
    /\ Len(items) + Len(other) <= MaxItems
    /\ LET r == append(items, other)
       IN  Built(r.self, pushed \o other, "append", other, r.other)

FromString(string, bare_cr_stripped) ==
    /\ yielded = <<>>
    /\ LET p == from_string(string, bare_cr_stripped)
       IN  Built(p, p, "from_string", string, <<>>)

Parse(cmd, text, eval_output) ==
    /\ yielded = <<>>
    /\ LET p == parse(cmd, text, eval_output)
       IN  Built(p, p, "parse", cmd, <<>>)

\* one turn of `for elem in printer`
IterNext ==
    /\ LET r == next(items)
       IN  /\ items' = r.items
           /\ yielded' = yielded \o r.ret
           /\ call' = [op |-> "next", arg |-> None, ret |-> r.ret]
    /\ UNCHANGED <<pushed, cursor, internal_cursor, term, result, racer_locked,
                   bufVars, lawVars, coordVars>>

NextPrinter ==
    \/ \E output \in ProducerItems : PrinterNew(output)
    \/ \E output \in ProducerItems : Push(output)
    \/ \E num \in 1..2 : AddNewLine(num)
    \/ Pop
    \/ \E other \in Evaluations : Append_(other)
    \/ \E string \in SeqsUpTo(StrChars, MaxLen), b \in BOOLEAN : FromString(string, b)
    \/ \E cmd \in Commands, text \in {<<"a">>, <<"a", NL>>}, e \in Evaluations :
           Parse(cmd, text, e)
    \/ IterNext

SpecPrinter == InitPrinter /\ [][NextPrinter]_vars

----------------------------------------------------------------------------
(* Claims about Printer *)

IsNewLine(item) == item.string_type = "NewLine"

\* the positions of the newlines of s, in order
NewlinePositions(s) == SelectSeq([i \in 1..Len(s) |-> i], LAMBDA i : s[i] = NL)

\* the number of lines of s: one per newline, and the rest when it is not empty
LineCount(s) ==
    IF s = <<>> \/ ends_with_newline(s) THEN Len(NewlinePositions(s))
    ELSE Len(NewlinePositions(s)) + 1

\* line j of s, without the newline that ends it
LineOf(s, j) ==
    LET at == NewlinePositions(s)
        from == IF j = 1 THEN 1 ELSE at[j - 1] + 1
        to == IF j <= Len(at) THEN at[j] - 1 ELSE Len(s)
    IN  SubSeq(s, from, to)

HasCR(s) == \E i \in 1..Len(s) : s[i] = CR

\* the texts of the items of p that are not NewLine items
TextsOf(p) == [i \in 1..Len(SelectSeq(p, LAMBDA item : ~IsNewLine(item))) |->
                  SelectSeq(p, LAMBDA item : ~IsNewLine(item))[i].string]

RECURSIVE Join(_)
\* the texts with a newline between them
Join(texts) ==
    IF texts = <<>> THEN <<>>
    ELSE IF Len(texts) = 1 THEN texts[1]
    ELSE texts[1] \o <<NL>> \o Join(Tail(texts))

\* C12: from_string(s) holds one Custom(None) item per line of s, in order,
\* each followed by one NewLine item, except that no NewLine follows the last
\* line of an s that does not end in a newline; there are as many NewLine
\* items as newlines in s, and the empty string gives the empty batch.
C12_FromStringShape ==
    call.op = "from_string" =>
        LET s == call.arg
            n == LineCount(s)
        IN  /\ Len(items) = IF ends_with_newline(s) \/ n = 0 THEN 2 * n ELSE 2 * n - 1
            /\ \A i \in 1..Len(items) :
                 IF i % 2 = 1
                 THEN /\ items[i].string_type = "Custom(None)"
                      /\ ~HasCR(s) => items[i].string = LineOf(s, (i + 1) \div 2)
                 ELSE items[i] = PrinterItem_default
            /\ count_new_line_items(items) = new_lines_count(s)
            /\ s = <<>> => items = <<>>

\* from_string has split a string of two lines that ends in a newline, and
\* one of two lines that does not
C12_Witness ==
    /\ call.op = "from_string"
    /\ call.arg = <<"a", NL, "a">>
    /\ Len(items) = 3

\* C13 as stated: for every string s, the texts of from_string(s) joined by
\* newlines are s, or s without its final newline when s ends in one.
C13_RoundTripEveryString ==
    call.op = "from_string" =>
        LET s == call.arg
        IN  Join(TextsOf(items)) =
                IF ends_with_newline(s) THEN SubSeq(s, 1, Len(s) - 1) ELSE s

\* C13 as amended: the same, for every string s without a carriage return.
C13_RoundTripWithoutCR ==
    (call.op = "from_string" /\ ~HasCR(call.arg)) =>
        LET s == call.arg
        IN  Join(TextsOf(items)) =
                IF ends_with_newline(s) THEN SubSeq(s, 1, Len(s) - 1) ELSE s

\* a string with an empty line in the middle and a newline at the end
C13_Witness ==
    /\ call.op = "from_string"
    /\ call.arg = <<NL, "a", NL>>
    /\ Join(TextsOf(items)) = <<NL, "a">>

\* C14: the iterator yields the items front to back in the order they were
\* pushed, each once, and removes what it yields; when it yields nothing the
\* batch is empty and everything pushed has been yielded.
C14_DrainInOrder ==
    /\ yielded \o items = pushed
    /\ call.op = "next" =>
         IF call.ret = <<>>
         THEN items = <<>> /\ yielded = pushed
         ELSE call.ret = <<yielded[Len(yielded)]>>

\* a batch of different items has been drained to the end
C14_Witness ==
    /\ call.op = "next"
    /\ call.ret = <<>>
    /\ Len(yielded) >= 3
    /\ yielded[1] # yielded[2]
    /\ yielded[2] # yielded[3]

\* C20: every NewLine item of a batch the producers build has empty text.
C20_NewLineHasNoText ==
    \A i \in 1..Len(items) : IsNewLine(items[i]) => items[i].string = <<>>

\* a batch with text items and NewLine items, built by push and add_new_line
C20_Witness ==
    /\ call.op = "add_new_line"
    /\ Len(items) >= 3
    /\ IsNewLine(items[Len(items)])
    /\ ~IsNewLine(items[1])

----------------------------------------------------------------------------
(* print_output on small terminals, with a failure at any of its operations *)

\* tallest of the small terminals
MaxRows == 5
\* the k-th fallible operation of a call fails, k up to MaxOps
MaxOps == 7
\* longest batch handed to print_output on the small terminals
MaxBatch == 2

InitRecheck ==
    /\ new(MaxWidth)
    /\ law = IdleLaw
    /\ query = <<>>
    /\ coord = <<>>
    /\ \E h \in 1..MaxRows, r \in 0..(MaxRows - 1) :
        /\ r < h
        /\ cursor = [current_pos |-> <<0, r>>, starting_pos |-> <<0, r>>, height |-> h]
    /\ internal_cursor = [x |-> 0, y |-> 0]
    /\ term = <<>>
    /\ result = None
    /\ call = [op |-> None]
    /\ racer_locked = FALSE
    /\ NoPrinter

NextRecheck ==
    \/ \E printer \in SeqsUpTo(Items, MaxBatch), fail \in 0..MaxOps :
           PrintOutput(printer, fail)
    \/ Handled

SpecRecheck == InitRecheck /\ [][NextRecheck]_vars

\* the overflow re-checks of the last print_output
Checks == IF call.op = "print_output" THEN call.checks ELSE <<>>

\* C16 as stated: before the re-check, a text item with k >= 1 embedded
\* newlines has moved the tracked row by k.
C16_RowMovesOncePerNewline ==
    \A i \in 1..Len(Checks) :
        Checks[i].new_lines >= 1 =>
            Checks[i].before = Checks[i].start + Checks[i].new_lines

\* C16 as amended: the tracked row moves once per line written, k + 1 times,
\* after the line advance made before the first line: by k + 2 in all.
C16_RowMovesOncePerLine ==
    \A i \in 1..Len(Checks) :
        Checks[i].new_lines >= 1 =>
            /\ Checks[i].before = Checks[i].advanced + Checks[i].new_lines + 1
            /\ Checks[i].before = Checks[i].start + Checks[i].new_lines + 2

\* a text with two embedded newlines has been written and re-checked
C16_Witness ==
    \E i \in 1..Len(Checks) :
        /\ Checks[i].new_lines = 2
        /\ Checks[i].before = Checks[i].start + 4

\* the rows left below the row the re-check saw
Remaining(c) == (cursor.height - 1) - c.before

IsOneScrollUpOfOneRow(ops) ==
    Len(ops) = 1 /\ ops[1].op = "scroll_up" /\ ops[1].arg = 1

\* C17: after each text item, a newline count above the remaining
\* rows gives exactly one scroll-up of one row and the row bound.height - 1;
\* otherwise no scroll and the row as it was.  A scroll-up that fails leaves
\* the row where it was.
C17_RecheckScrollsAndPins ==
    \A i \in 1..Len(Checks) :
        IF Checks[i].new_lines > Remaining(Checks[i])
        THEN /\ IsOneScrollUpOfOneRow(Checks[i].ops)
             /\ Checks[i].after = cursor.height - 1
        ELSE /\ Checks[i].ops = <<>>
             /\ Checks[i].after = Checks[i].before

----------------------------------------------------------------------------
(* print_input: the echo of the edit buffer.  Here the cursor record also
   holds the terminal's width, whether the cursor is hidden, and the position
   save_position kept (<<>> when none). *)

\* widest wrap width of the echoed buffers
MaxCols == 2
\* longest echoed buffer
MaxInput == 2
\* tallest terminal of the echo sessions
MaxLines == 3
\* the k-th fallible step of an echo fails, k up to MaxStep
MaxStep == 4

\* the input prompt marker, and the column where input starts after it
In == <<"I", "n", ":", " ">>
INPUT_START_COL == Len(In)
\* the continuation marker "..: "
Continuation == <<".", ".", ":", " ">>

col(st) == st.cursor.current_pos[1]

\* Cursor::hide / Cursor::show
hide(st) == TermMove([st EXCEPT !.cursor.hidden = TRUE], "hide", <<>>)
show(st) == TermMove([st EXCEPT !.cursor.hidden = FALSE], "show", <<>>)

\* Cursor::save_position
save_position(st) ==
    LET s1 == TermDo([st EXCEPT !.cursor.saved = <<st.cursor.current_pos>>],
                     "save_position", <<>>)
    IN  IF ~LastOk(s1) THEN Err(s1) ELSE s1

\* Cursor::restore_position
restore_position(st) ==
    LET s1 == TermDo(st, "restore_position", <<>>)
    IN  IF ~LastOk(s1) THEN Err(s1)
        ELSE [s1 EXCEPT !.cursor.current_pos = st.cursor.saved[1]]

\* Cursor::goto_start
cursor_goto_start(st) ==
    TermMove([st EXCEPT !.cursor.current_pos = st.cursor.starting_pos],
             "goto", st.cursor.starting_pos)

\* Cursor::is_at_col
is_at_col(st, c) == col(st) = c

\* Cursor::input_last_pos(&buffer): the end of the buffer, as a viewport position
input_last_pos(st, b, w) ==
    LET relative == last_buffer_pos_to_relative_cursor_pos(b, w)
    IN  <<relative[1] + INPUT_START_COL, relative[2] + st.cursor.starting_pos[2]>>

\* the cursor moves one column right, wrapping to the input column of the next row
cursor_move_right(st) ==
    IF col(st) + 1 >= st.cursor.width
    THEN [st EXCEPT !.cursor.current_pos = <<INPUT_START_COL, @[2] + 1>>]
    ELSE [st EXCEPT !.cursor.current_pos = <<@[1] + 1, @[2]>>]

RECURSIVE advance(_, _)
advance(st, n) == IF n = 0 THEN st ELSE advance(cursor_move_right(st), n - 1)

\* IRust::write(out, color)
write_color(st, out, color) ==
    LET s1 == TermDo(st, "write", [text |-> out, color |-> color])
    IN  IF ~LastOk(s1) THEN Err(s1) ELSE advance(s1, Len(out))

\* IRust::write_from_terminal_start(out, color)
write_from_terminal_start(st, out, color) ==
    write_color(TermMove([st EXCEPT !.cursor.current_pos = <<0, @[2]>>],
                         "goto", <<0, row(st)>>),
                out, color)

\* a step that returns a Result without touching the terminal
Try(st) == [st EXCEPT !.n = @ + 1, !.res = IF st.n + 1 = st.fail THEN "Err" ELSE @]

\* IRust::lock_racer_update / IRust::unlock_racer_update
lock_racer_update(st) ==
    LET s1 == Try(st) IN IF s1.res = "Err" THEN s1 ELSE [s1 EXCEPT !.locked = TRUE]
unlock_racer_update(st) ==
    LET s1 == Try(st) IN IF s1.res = "Err" THEN s1 ELSE [s1 EXCEPT !.locked = FALSE]

\* highlight(text): the batch of from_string, each text tagged Custom(Some(color))
highlight(string) ==
    [i \in 1..Len(from_string(string, TRUE)) |->
        LET item == from_string(string, TRUE)[i]
        IN  IF item.string_type = "NewLine" THEN item
            ELSE PrinterItem_new(item.string, "Custom(Some)")]

scroll_if_needed_for_input_full_height(st, b, w) ==
    LET input_last_row == input_last_pos(st, b, w)[2]
        height_overflow == Max(0, input_last_row - st.cursor.height)
    IN  IF height_overflow > 0 THEN scroll_up(st, height_overflow) ELSE st

\* saturating_sub(..) is Max(0, ..)
scroll_if_needed_for_input(st, b, w) ==
    LET input_last_row == input_last_pos(st, b, w)[2]
        height_overflow == Max(0, input_last_row - (st.cursor.height - 1))
    IN  IF height_overflow > 0 THEN scroll_up(st, height_overflow) ELSE st

\* the colour print_inner takes out of Custom(color)
custom_color(string_type) == IF string_type = "Custom(Some)" THEN "Some" ELSE "None"

RECURSIVE print_chars(_, _, _)
\* for c in elem.string.chars()
print_chars(st, chars, color) ==
    IF chars = <<>> THEN st
    ELSE LET s1 == write_color(st, <<Head(chars)>>, color)
         IN  IF s1.res = "Err" THEN s1
             ELSE LET s2 == IF is_at_col(s1, INPUT_START_COL)
                            THEN write_from_terminal_start(s1, Continuation, "Yellow")
                            ELSE s1
                  IN  IF s2.res = "Err" THEN s2
                      ELSE print_chars(s2, Tail(chars), color)

RECURSIVE print_inner(_, _)
\* Cursor::bound_current_row_at_current_col records the row's last column in the
\* cursor's bound, which nothing here reads
print_inner(st, printer) ==
    IF printer = <<>> THEN st
    ELSE LET elem == Head(printer)
             s1 == CASE elem.string_type \in {"Custom(None)", "Custom(Some)"} ->
                            print_chars(st, elem.string, custom_color(elem.string_type))
                      [] elem.string_type = "NewLine" ->
                            write_color(goto_next_row_terminal_start(st),
                                        Continuation, "Some")
                      [] OTHER -> st
         IN  IF s1.res = "Err" THEN s1 ELSE print_inner(s1, Tail(printer))

\* print_input up to the redrawn content
print_input_redraw(st, color, b, w) ==
    LET s1 == scroll_if_needed_for_input(hide(st), b, w)
        s2 == save_position(s1)
    IN  IF s2.res = "Err" THEN s2
        ELSE LET s3 == TermDo(cursor_goto_start(s2), "clear", "FromCursorDown")
             IN  IF ~LastOk(s3) THEN Err(s3)
                 ELSE LET s4 == write_from_terminal_start(s3, In, "Yellow")
                      IN  IF s4.res = "Err" THEN s4
                          ELSE print_inner(s4, IF color THEN highlight(b)
                                               ELSE from_string(b, TRUE))

print_input_show_before_restore(st, color, b, w) ==
    LET s1 == print_input_redraw(st, color, b, w)
    IN  IF s1.res = "Err" THEN s1
        ELSE LET s2 == restore_position(show(s1))
             IN  IF s2.res = "Err" THEN s2
                 ELSE IF color THEN lock_racer_update(s2)
                               ELSE unlock_racer_update(s2)

print_input_lock_on_plain(st, color, b, w) ==
    LET s1 == print_input_redraw(st, color, b, w)
    IN  IF s1.res = "Err" THEN s1
        ELSE LET s2 == restore_position(s1)
             IN  IF s2.res = "Err" THEN s2
                 ELSE IF color THEN unlock_racer_update(show(s2))
                               ELSE lock_racer_update(show(s2))

print_input(st, color, b, w) ==
    LET s1 == print_input_redraw(st, color, b, w)
    IN  IF s1.res = "Err" THEN s1
        ELSE LET s2 == restore_position(s1)
             IN  IF s2.res = "Err" THEN s2
                 ELSE IF color THEN lock_racer_update(show(s2))
                               ELSE unlock_racer_update(show(s2))

\* the viewport position of buffer position p when the input starts at row r
InputPos(b, w, p, r) ==
    LET relative == buffer_pos_to_relative_cursor_pos(b, w, p)
    IN  <<relative[1] + INPUT_START_COL, relative[2] + r>>

InitInput ==
    /\ \E str \in SeqsUpTo({"a", NL}, MaxInput), w \in 1..MaxCols :
        /\ from_str(str, w)
        /\ \E h \in 1..MaxLines, r \in 0..(MaxLines - 1) :
            /\ r < h
            /\ cursor = [current_pos |-> InputPos(str, w, 0, r),
                         starting_pos |-> <<0, r>>, height |-> h,
                         width |-> w + INPUT_START_COL, hidden |-> FALSE,
                         saved |-> <<>>]
    /\ law = IdleLaw
    /\ query = <<>>
    /\ coord = <<>>
    /\ internal_cursor = [x |-> 0, y |-> 0]
    /\ term = <<>>
    /\ result = None
    /\ call = [op |-> None]
    /\ racer_locked = FALSE
    /\ NoPrinter

PrintInput(color, fail) ==
    /\ call.op = None
    /\ LET st == print_input(Enter(fail), color, buffer, max_line_char)
       IN  /\ cursor' = st.cursor
           /\ internal_cursor' = st.internal_cursor
           /\ term' = st.term
           /\ result' = st.res
           /\ racer_locked' = st.locked
           /\ call' = [op |-> "print_input", arg |-> color, fail |-> st.fail,
                       entry |-> cursor, locked |-> racer_locked]
    /\ UNCHANGED <<bufVars, lawVars, coordVars, printerVars>>

NextInput ==
    \/ \E color \in BOOLEAN, fail \in 0..MaxStep : PrintInput(color, fail)
    \/ Handled

SpecInput == InitInput /\ [][NextInput]_vars

\* print_input has returned
Echoed == call.op = "print_input"

\* print_input has returned Ok
EchoedOk == Echoed /\ result = "Ok"

\* the row of the buffer's end position when print_input was entered, by the
\* reference walk
EndRow ==
    call.entry.starting_pos[2]
        + ReferenceWalk(buffer, max_line_char, Len(buffer), <<0, 0>>)[2]

Overflow == Max(0, EndRow - (call.entry.height - 1))

ScrollUpsOf(log) == SelectSeq(log, LAMBDA e : e.op = "scroll_up")

\* C11: when clear, the prompt write or a content write fails, print_input
\* returns the failure with the saved position restored and the cursor no
\* longer hidden.
C11_FailureRestoresCursor ==
    (/\ Echoed
     /\ result = "Err"
     /\ term[Len(term)].op \in {"clear", "write"}
     /\ ~term[Len(term)].ok)
        => /\ ~cursor.hidden
           /\ cursor.current_pos = cursor.saved[1]

\* C15: before the redraw print_input scrolls up by exactly
\* max(0, end_row - (bound.height - 1)) rows, in one scroll made before the
\* position is saved and before anything is cleared or written; the amount
\* is never negative and a zero amount issues no scroll at all.
C15_InputScrollAmount ==
    Echoed =>
        /\ \A i \in 1..Len(term) : term[i].op = "scroll_up" => term[i].arg > 0
        /\ IF Overflow = 0 THEN ScrollUpsOf(term) = <<>>
           ELSE /\ Len(ScrollUpsOf(term)) = 1
                /\ term[2].op = "scroll_up"
                /\ term[2].arg = Overflow

\* an echo that scrolled by two rows
C15_Witness ==
    /\ Echoed
    /\ Overflow = 2
    /\ Len(ScrollUpsOf(term)) = 1

RECURSIVE ContentOf(_, _, _)
\* the characters written by events i..j of the log, continuation markers aside
ContentOf(log, i, j) ==
    IF i > j THEN <<>>
    ELSE (IF log[i].op = "write" /\ log[i].arg.text # Continuation
          THEN log[i].arg.text ELSE <<>>)
         \o ContentOf(log, i + 1, j)

\* C18: a successful print_input makes its terminal events in this order:
\* hide, the overflow scroll if any, save position, move to the input start,
\* clear, prompt marker, buffer content, restore position, show.
C18_EventOrder ==
    EchoedOk =>
        LET n == Len(term)
            k == IF term[2].op = "scroll_up" THEN 3 ELSE 2
        IN  /\ n >= k + 6
            /\ term[1].op = "hide"
            /\ term[k].op = "save_position"
            /\ term[k + 1].op = "goto" /\ term[k + 1].arg = cursor.starting_pos
            /\ term[k + 2].op = "clear"
            /\ term[k + 3].op = "goto"
            /\ term[k + 4].op = "write" /\ term[k + 4].arg.text = In
            /\ \A i \in (k + 5)..(n - 2) : term[i].op \in {"write", "goto"}
            /\ ContentOf(term, k + 5, n - 2) = SelectSeq(buffer, LAMBDA c : c # NL)
            /\ term[n - 1].op = "restore_position"
            /\ term[n].op = "show"

\* a successful echo of a two-character buffer that scrolled first and wrapped
C18_Witness ==
    /\ EchoedOk
    /\ Len(buffer) = 2
    /\ term[2].op = "scroll_up"
    /\ \E i \in 1..Len(term) :
        term[i].op = "write" /\ term[i].arg.text = Continuation

\* C19: after a successful print_input(color) the racer update lock is held
\* exactly when color was true.
C19_LockIffColor ==
    EchoedOk => (racer_locked <=> call.arg)

\* a plain echo that found the lock held and released it
C19_Witness ==
    /\ EchoedOk
    /\ call.locked
    /\ ~call.arg
    /\ ~racer_locked

----------------------------------------------------------------------------
(* Claims about Printer::append *)

\* C21: a.append(b) leaves a holding its previous items followed by all of b's
\* previous items, each group in its original order, and leaves b empty: the
\* two batches together hold every item once.
C21_AppendMovesItems ==
    [][call'.op = "append" =>
          /\ items' = items \o call'.arg
          /\ call'.ret = <<>>
          /\ Len(items') + Len(call'.ret) = Len(items) + Len(call'.arg)]_vars

\* a batch of one item has taken the two items of another, which is left empty
C21_Witness ==
    /\ call.op = "append"
    /\ Len(call.arg) = 2
    /\ Len(items) = 3
    /\ SubSeq(items, 2, 3) = call.arg
    /\ items[1] \notin {call.arg[1], call.arg[2]}
    /\ call.ret = <<>>

====
